---- MODULE Spec2Model ----
(***************************************************************************)
(* SQLAlchemyConnector (src/shared/sqlalchemy_connector.py): the upsert    *)
(* engine (upsert, merge_data, merge_tables, create_staging_table), the    *)
(* key resolution (get_merge_columns, is_unique_constraint), the           *)
(* relationship graph it consults (setup_fkey_relationships,               *)
(* get_foreign_keys, tables_are_linked_by), the direct and the chunked     *)
(* write, execute, wrap_literal, get_random_temp_table_name, and the       *)
(* engine and connection caches of connect, over a small PostgreSQL        *)
(* database: a target table parent(id, code, extra) and one table child    *)
(* whose foreign key may reference a key of parent.                        *)
(***************************************************************************)
EXTENDS Integers, Sequences, FiniteSets, TLC

VARIABLES
    schema,         \* constraints of the target table (the catalog; never changed)
    target,         \* committed rows of the target table
    child,          \* committed rows of the child table: the parent key each references
    staging,        \* <target>_staging: [exists, rows], committed
    seq,            \* next value of the target's id sequence
    relationships,  \* self.relationships: the cached relationship graph
    args,           \* arguments of the upsert call: [data, upsert_cols]
    pc,             \* position of the call
    run,            \* 1: first call, 2: the same call made again
    lookup,         \* upsert(): lookup (the resolved upsert columns)
    merge_cols,     \* upsert(): merge_cols
    pending,        \* the call's session: [open, rows], its uncommitted rows of the target
    error,          \* the exception that ended the call, or "none"
    stmts,          \* statements the call has sent to the database
    pre,            \* committed rows of the target when the call began
    first,          \* outcome of the first call: [error, rows]
    nrec,           \* chunked writer: number of records of the batch
    chunks,         \* chunked writer: the <<from, to>> slices written, each committed
    session,        \* the session the call works on: "none", "idle", "active" or "closed"
    supplied,       \* columns the INSERT statements of a write gave values for
    catalog,        \* the foreign keys of the database: edges [parent, child, pkey]
    queries,        \* the catalog queries sent for the relationship graph, in order
    returned,       \* what the last call on the relationship graph returned
    ENGINE_CACHE,   \* module-level ENGINE_CACHE: key -> engine
    CONN_CACHE,     \* module-level CONN_CACHE: key -> connection
    created,        \* the engines and connections created so far, in order
    connector,      \* self.engine and self.conn of the connector that connected last
    match_stmt,     \* the operator of each merge column in the MERGE generated last
    frame           \* local variables of a helper call in progress; in an upsert,
                    \* the transaction of the call's session

vars == <<schema, target, child, staging, seq, relationships, args, pc, run, lookup,
          merge_cols, pending, error, stmts, pre, first, nrec, chunks, session, supplied,
          catalog, queries, returned, ENGINE_CACHE, CONN_CACHE, created, connector,
          match_stmt, frame>>

\* The relationship graph's surroundings and the connection caches.
graphVars == <<catalog, queries, returned>>
connVars == <<ENGINE_CACHE, CONN_CACHE, created, connector>>

-----------------------------------------------------------------------------
(* Bounds of the model. *)

\* Longest record batch of an upsert call.
MaxBatch == 3
\* The row-level model writes in chunks above this many records; it stands for
\* the 10000 of write(), which no explicit batch of rows can reach.
ChunkLimit == 2
\* Largest batch of the chunked writer's own specification (counted records).
MaxRecords == 30001

\* Most foreign keys of a database of the relationship graph's specification.
MaxEdges == 2
\* Most catalog queries followed in the relationship graph's specification.
MaxQueries == 2

\* Most connect calls followed in the connection caches' specification.
MaxConnects == 3

\* Most suffixes get_random_temp_table_name draws from (random.randint(1, 1000)
\* in the source).
SuffixRange == 3

\* get_random_temp_table_name(): "retry_ct < 20" and "if retry_ct == 20".
MAX_RETRIES == 20

\* write(): "if len(data) > 10000" and the chunk_size it passes on.
CHUNK_SIZE == 10000

-----------------------------------------------------------------------------
(* Values. *)

Null == "NULL"
NoCols == {"None"}
NoTx == [open |-> FALSE, rows |-> {}]
Tx(rows) == [open |-> TRUE, rows |-> rows]
Codes == {"A", "B"}
OldExtra == "v1"
NewExtra == "v2"
AllColumns == {"id", "code", "extra"}
TargetName == "app.parent"
ChildName == "app.child"

\* The value of column c in a record (a dict of the batch, or a row): None when absent.
Field(r, c) == IF c \in DOMAIN r THEN r[c] ELSE Null

\* A record or row restricted to the columns cols.
Project(r, cols) == [c \in cols |-> Field(r, c)]

\* The row holds NULL in column c (id is generated and never null).
IsNullAt(r, c) == c # "id" /\ r[c] = Null

Max(S) == CHOOSE x \in S : \A y \in S : y <= x

-----------------------------------------------------------------------------
(* The catalog. *)

\* No helper call is in progress.
NoFrame == [op |-> "none"]

\* No MERGE has been generated yet.
NoMatch == [c \in {} |-> "="]

\* No call on the relationship graph has returned yet.
NoCall == [op |-> "none"]

\* No connector has connected in the process: the module-level caches are empty.
NoRequest == [dialect |-> "none", conn_kwargs |-> "none", sslmode |-> "None"]
NoHandles == <<>>
NotConnected ==
    /\ ENGINE_CACHE = NoHandles
    /\ CONN_CACHE = NoHandles
    /\ created = <<>>
    /\ connector = [engine |-> 0, conn |-> 0, req |-> NoRequest]

\* pk: the primary key ("id", "code" or "none"); idKind: id is GENERATED ALWAYS AS
\* IDENTITY ("always") or a serial column ("serial"); uniques: the UNIQUE
\* constraints; fk: the parent key child's foreign key references ("none": no
\* foreign key). A foreign key references a primary key or a unique constraint.
Schemas ==
    {s \in [pk : {"id", "code", "none"}, idKind : {"always", "serial"},
            uniques : SUBSET {{"code"}, {"code", "extra"}}, fk : {"none", "code", "id"}] :
        /\ s.fk = "code" => (s.pk = "code" \/ {"code"} \in s.uniques)
        /\ s.fk = "id" => s.pk = "id"}

PkCols(s) == IF s.pk = "none" THEN {} ELSE {s.pk}

\* col.identity is not None and col.identity.always
IdentityAlways(s, c) == c = "id" /\ s.idKind = "always"

\* get_id_columns: the columns with an identity.
get_id_columns(s) == {c \in AllColumns : IdentityAlways(s, c)}

\* get_table_columns(incl_identity=False) and the column filter of write().
get_table_columns(s) == {c \in AllColumns : ~IdentityAlways(s, c)}

\* The constraints that demand uniqueness: the primary key and the unique constraints.
KeyConstraints(s) == s.uniques \cup (IF s.pk = "none" THEN {} ELSE {PkCols(s)})

\* No two rows agree on a key; primary-key columns are not null.
ConstraintsHold(s, rows) ==
    /\ \A k \in KeyConstraints(s) : \A r1, r2 \in rows :
          r1 # r2 => \E c \in k : IsNullAt(r1, c) \/ r1[c] # r2[c]
    /\ \A r \in rows : \A c \in PkCols(s) : ~IsNullAt(r, c)

\* Every child row references an existing parent row (ON DELETE NO ACTION).
ForeignKeyHolds(s, rows, ch) ==
    s.fk = "none" \/ \A c \in ch : \E r \in rows : r[s.fk] = c.ref

-----------------------------------------------------------------------------
(* Key resolution. *)

\* get_merge_columns choosing the narrowest constraint: min() where the method
\* has max().
get_merge_columns_narrowest(s, cols) ==
    LET unique_const == {u \in s.uniques : ~\E c \in u : IdentityAlways(s, c)}
        in_data == IF cols = NoCols THEN unique_const
                   ELSE {u \in unique_const : u \subseteq cols}
        pkey_const == PkCols(s)
        widths == {Cardinality(u) : u \in in_data}
        unique_cols == {u \in in_data : Cardinality(u) = -Max({-w : w \in widths})
                                        /\ u \cap get_id_columns(s) = {}}
    IN  IF pkey_const # {} /\ ~\E c \in pkey_const : IdentityAlways(s, c)
        THEN [raised |-> FALSE, choices |-> {pkey_const}]
        ELSE IF widths = {} THEN [raised |-> TRUE, choices |-> {}]
        ELSE [raised |-> FALSE, choices |-> IF unique_cols = {} THEN {{}} ELSE unique_cols]

\* get_merge_columns returning the empty list, where the method's max() of no
\* constraint raises.
get_merge_columns_no_raise(s, cols) ==
    LET unique_const == {u \in s.uniques : ~\E c \in u : IdentityAlways(s, c)}
        in_data == IF cols = NoCols THEN unique_const
                   ELSE {u \in unique_const : u \subseteq cols}
        pkey_const == PkCols(s)
        widths == {Cardinality(u) : u \in in_data}
        unique_cols == {u \in in_data : Cardinality(u) = Max(widths)
                                        /\ u \cap get_id_columns(s) = {}}
    IN  IF pkey_const # {} /\ ~\E c \in pkey_const : IdentityAlways(s, c)
        THEN [raised |-> FALSE, choices |-> {pkey_const}]
        ELSE [raised |-> FALSE, choices |-> IF unique_cols = {} THEN {{}} ELSE unique_cols]

\* get_merge_columns(table_name, data): the outcome is [raised, choices]; choices
\* are the results random.choice can return. cols is the set of columns of
\* data[0], or NoCols when the call passes no data.
get_merge_columns(s, cols) ==
    LET unique_const == {u \in s.uniques : ~\E c \in u : IdentityAlways(s, c)}
        in_data == IF cols = NoCols THEN unique_const
                   ELSE {u \in unique_const : u \subseteq cols}
        pkey_const == PkCols(s)
        widths == {Cardinality(u) : u \in in_data}
        unique_cols == {u \in in_data : Cardinality(u) = Max(widths)
                                        /\ u \cap get_id_columns(s) = {}}
    IN  IF pkey_const # {} /\ ~\E c \in pkey_const : IdentityAlways(s, c)
        THEN [raised |-> FALSE, choices |-> {pkey_const}]
        ELSE IF widths = {}
        THEN [raised |-> TRUE, choices |-> {}]       \* max() of an empty dict
        ELSE [raised |-> FALSE,
              choices |-> IF unique_cols = {} THEN {{}} ELSE unique_cols]

\* is_unique_constraint(table_name, cols)
is_unique_constraint(s, cols) == cols \subseteq UNION KeyConstraints(s)

-----------------------------------------------------------------------------
(* The relationship graph. *)

\* The rows of the catalog query of setup_fkey_relationships, grouped as the
\* method groups them: parent -> child -> parent key -> foreign keys.
CatalogRelationships(s) ==
    IF s.fk = "none" THEN {}
    ELSE {[parent |-> TargetName, child |-> ChildName, pkey |-> {s.fk}]}

\* The tables of the database. "public" is one of the connector's built-in
\* schemas of PostgreSQL.
OtherName == "public.other"
Tables == {TargetName, ChildName, OtherName}
BuiltinTables == {OtherName}

\* The rows the catalog query returns: with skip_builtins, without the
\* foreign keys whose parent or child table is in a built-in schema.
CatalogQuery(cat, skip_builtins) ==
    IF skip_builtins
    THEN {e \in cat : e.parent \notin BuiltinTables /\ e.child \notin BuiltinTables}
    ELSE cat

\* setup_fkey_relationships sends the catalog query: there is no graph yet, or
\* an empty one, or overwrite is set.
QueriesCatalog(rels, overwrite) == ~(rels # {} /\ ~overwrite)

\* setup_fkey_relationships(skip_builtins, overwrite): the graph it leaves in
\* self.relationships.
setup_fkey_relationships(rels, cat, skip_builtins, overwrite) ==
    IF QueriesCatalog(rels, overwrite) THEN CatalogQuery(cat, skip_builtins) ELSE rels

has_dependent_tables(rels, parent_table) == \E e \in rels : e.parent = parent_table

\* get_foreign_keys(parent_table): the edges out of parent_table.
get_foreign_keys(rels, parent_table) == {e \in rels : e.parent = parent_table}

\* get_foreign_key_parents(child_table): the edges into child_table.
get_foreign_key_parents(rels, child_table) == {e \in rels : e.child = child_table}

\* "parent_column in child_tables[child_table]": the keys of that dict are the
\* tuples of parent columns, which a str never equals.
ColumnInKeys(parent_column, keys) ==
    parent_column.kind = "tuple" /\ parent_column.cols \in keys

\* tables_are_linked_by(parent_table, child_table, parent_column, checked):
\* [value, checked, calls], value being "True", "False", "None" (the method
\* ends without a return) or "TypeError" (get_foreign_keys returned None),
\* checked the set it shares with its recursive calls and calls the number of
\* calls made. The loop calls the method on every child of parent_table not
\* yet checked (once more for each further key of that child, with the same
\* outcome).
RECURSIVE tables_are_linked_by(_, _, _, _, _)
RECURSIVE LinkedBySiblings(_, _, _, _, _)
tables_are_linked_by(rels, parent_table, child_table, parent_column, checked) ==
    LET child_tables == get_foreign_keys(rels, parent_table)
        keys == {e.pkey : e \in {x \in child_tables : x.child = child_table}}
    IN  IF ~has_dependent_tables(rels, parent_table)
        THEN [value |-> "TypeError", checked |-> checked, calls |-> 1]
        ELSE IF child_table \notin {e.child : e \in child_tables}
        THEN [value |-> "False", checked |-> checked, calls |-> 1]
        ELSE IF ColumnInKeys(parent_column, keys)
        THEN [value |-> "True", checked |-> checked, calls |-> 1]
        ELSE LinkedBySiblings(rels, parent_table, parent_column, checked \cup {child_table}, 1)

\* The loop of tables_are_linked_by over the children of parent_table.
LinkedBySiblings(rels, parent_table, parent_column, checked, calls) ==
    LET todo == {e.child : e \in get_foreign_keys(rels, parent_table)} \ checked
    IN  IF todo = {}
        THEN [value |-> "None", checked |-> checked, calls |-> calls]
        ELSE LET sub_child == CHOOSE t \in todo : TRUE
                 r == tables_are_linked_by(rels, parent_table, sub_child, parent_column,
                                           checked)
             IN  IF r.value = "True"
                 THEN [value |-> "True", checked |-> r.checked, calls |-> calls + r.calls]
                 ELSE LinkedBySiblings(rels, parent_table, parent_column,
                                       r.checked \cup {sub_child}, calls + r.calls)

\* wrap_literal(val) of a string, without type information: the quoted literal.
wrap_literal(v) == <<"'", v, "'">>

\* The value a quoted literal denotes in SQL.
LiteralValue(lit) == lit[2]

\* The lookup values taken from the first record only.
UpsertVals_first_record(data, cols) == {Project(data[1], cols \cap DOMAIN data[1])}

\* upsert(): the distinct lookup values of the batch. A record gives the values
\* of the lookup columns it has ("if k not in r: continue").
UpsertVals(data, cols) ==
    {Project(data[i], cols \cap DOMAIN data[i]) : i \in 1..Len(data)}

\* The filter "(<lookup>) in ((<literals>), ...)" is well formed when every
\* tuple of literals has one literal for each lookup column, none of them the
\* bare word None that wrap_literal returns for None.
FilterWellFormed(cols, vals) ==
    \A v \in vals : DOMAIN v = cols /\ \A c \in cols : v[c] # Null

\* A row satisfies the filter.
RowInFilter(r, cols, vals) ==
    \E v \in vals : \A c \in cols : ~IsNullAt(r, c) /\ r[c] = LiteralValue(wrap_literal(v[c]))

\* __downstream_data_exists_for_cols without "if not any(c in upsert_cols for c
\* in pkey)": every relationship of the table is a candidate.
downstream_without_overlap_test(rels, s, rows, ch, cols, vals) ==
    LET child_tables == get_foreign_keys(rels, TargetName)
        candidates == {e \in child_tables : ch # {}}
    IN  IF candidates = {} THEN [raised |-> FALSE, exists |-> FALSE]
        ELSE IF ~FilterWellFormed(cols, vals) THEN [raised |-> TRUE, exists |-> FALSE]
        ELSE [raised |-> FALSE,
              exists |-> \E e \in candidates : \E p \in rows : \E c \in ch :
                            /\ \A k \in e.pkey : p[k] = c.ref
                            /\ RowInFilter(p, cols, vals)]

\* __downstream_data_exists_for_cols: [raised, exists]. The join of the target
\* with the child on the foreign key, filtered by the lookup values, is read
\* from the committed rows; it is sent for each relationship whose parent key
\* overlaps the lookup columns, when the child table has rows.
downstream_data_exists_for_cols(rels, s, rows, ch, cols, vals) ==
    LET child_tables == get_foreign_keys(rels, TargetName)
        candidates == {e \in child_tables : ch # {} /\ e.pkey \cap cols # {}}
    IN  IF candidates = {} THEN [raised |-> FALSE, exists |-> FALSE]
        ELSE IF ~FilterWellFormed(cols, vals) THEN [raised |-> TRUE, exists |-> FALSE]
        ELSE [raised |-> FALSE,
              exists |-> \E e \in candidates : \E p \in rows : \E c \in ch :
                            /\ \A k \in e.pkey : p[k] = c.ref
                            /\ RowInFilter(p, cols, vals)]

-----------------------------------------------------------------------------
(* Writing. *)

Min(a, b) == IF a < b THEN a ELSE b

\* __write_in_chunks with range(len(data) // chunk_size): the last, partial
\* slice is never written.
ChunkSlices_without_remainder(n, chunk_size) ==
    LET slice(k) == <<Min((k - 1) * chunk_size, n), Min(k * chunk_size, n)>>
        all == [k \in 1..(n \div chunk_size) |-> slice(k)]
    IN  SelectSeq(all, LAMBDA p : p[1] < p[2])

\* __write_in_chunks: the slices data[n*chunk_size:(n+1)*chunk_size] for n in
\* range(len(data) // chunk_size + 1) that are written, as <<from, to>> pairs
\* (from exclusive, to inclusive, counted from 1); an empty slice is skipped.
ChunkSlices(n, chunk_size) ==
    LET slice(k) == <<Min((k - 1) * chunk_size, n), Min(k * chunk_size, n)>>
        all == [k \in 1..((n \div chunk_size) + 1) |-> slice(k)]
    IN  SelectSeq(all, LAMBDA p : p[1] < p[2])

\* The rows an INSERT of the records recs adds: a record gives the columns of
\* the table it has that are not identity-always, the id sequence the id
\* otherwise, and NULL stands in the other columns.
NewRows(recs, s, nextId) ==
    {[c \in AllColumns |->
        IF c \in get_table_columns(s) /\ c \in DOMAIN recs[i] THEN recs[i][c]
        ELSE IF c = "id" THEN nextId + i - 1
        ELSE Null] : i \in 1..Len(recs)}

\* __write_in_chunks from slice k on: every chunk is an APPEND on the caller's
\* session with do_commit=True, so that each chunk that succeeds is committed,
\* with whatever the session had pending. A chunk that fails ends the loop.
RECURSIVE WriteChunks(_, _, _, _, _, _, _)
WriteChunks(committed, sess, data, slices, k, s, nextId) ==
    IF k > Len(slices)
    THEN [ok |-> TRUE, committed |-> committed, pending |-> NoTx, seq |-> nextId,
          written |-> k - 1]
    ELSE LET chunk == SubSeq(data, slices[k][1] + 1, slices[k][2])
             new == sess \cup NewRows(chunk, s, nextId)
         IN  IF ConstraintsHold(s, new)
             THEN WriteChunks(new, new, data, slices, k + 1, s, nextId + Len(chunk))
             ELSE [ok |-> FALSE, committed |-> committed, pending |-> NoTx,
                   seq |-> nextId + Len(chunk), written |-> k - 1]

\* __finalize_transaction commits when do_commit or when the session is the call's own.
FinalizeCommits(is_sub, do_commit) == do_commit \/ ~is_sub

\* write(data, table, mode) for APPEND and OVERWRITE on a table whose committed
\* rows are committed and whose rows in the session are sess. limit is the
\* batch size above which it writes in chunks.
write(committed, sess, data, mode, is_sub, do_commit, s, nextId, limit) ==
    LET start == IF mode = "OVERWRITE" THEN {} ELSE sess
        new == start \cup NewRows(data, s, nextId)
    IN  IF Len(data) > limit
        THEN WriteChunks(committed, start, data, ChunkSlices(Len(data), limit), 1, s, nextId)
        ELSE IF ~ConstraintsHold(s, new)
        THEN [ok |-> FALSE, committed |-> committed, pending |-> NoTx,
              seq |-> nextId + Len(data), written |-> 0]
        ELSE IF FinalizeCommits(is_sub, do_commit)
        THEN [ok |-> TRUE, committed |-> new, pending |-> NoTx,
              seq |-> nextId + Len(data), written |-> 1]
        ELSE [ok |-> TRUE, committed |-> committed, pending |-> Tx(new),
              seq |-> nextId + Len(data), written |-> 1]

-----------------------------------------------------------------------------
(* MERGE. *)

\* get_columns_with_null_records: the columns of cols holding a NULL in some row.
get_columns_with_null_records(rows, cols) == {c \in cols : \E r \in rows : IsNullAt(r, c)}

\* merge_tables() testing the source only for NULLs.
MatchOperator_source_only(c, source_null, target_null) ==
    IF c \notin source_null THEN "=" ELSE "is not distinct from"

\* merge_tables(): the predicate of a merge column c is "=" when c has no NULL
\* in the source nor in the target, and "is not distinct from" otherwise.
MatchOperator(c, source_null, target_null) ==
    IF c \notin source_null /\ c \notin target_null THEN "=" ELSE "is not distinct from"

\* SQL's value of "t.c <op> s.c".
Compare(op, t, sr, c) ==
    IF op = "=" THEN ~IsNullAt(t, c) /\ ~IsNullAt(sr, c) /\ t[c] = sr[c]
    ELSE t[c] = sr[c]

\* merge_tables(source, target, merge_cols, filter_values) on the session's
\* rows of the target: [error, rows, seq, match_stmt]. The source is the
\* temporary table selected from the staging table by the filter on the lookup
\* values; a target row matched by a source row takes its columns other than
\* the merge columns, and a source row that matches no target row is inserted.
merge_tables(rows, source, s, mcols, cols, vals, ch, nextId) ==
    LET col_names == get_table_columns(s)
        using == {r \in source : RowInFilter(r, cols, vals)}
        source_null == get_columns_with_null_records(using, col_names)
        target_null == get_columns_with_null_records(rows, AllColumns)
        Matches(t, sr) ==
            \A c \in mcols : Compare(MatchOperator(c, source_null, target_null), t, sr, c)
        update_cols == col_names \ mcols
        matched(t) == {sr \in using : Matches(t, sr)}
        updated(t) ==
            IF matched(t) = {} THEN t
            ELSE LET sr == CHOOSE x \in matched(t) : TRUE
                 IN  [c \in AllColumns |-> IF c \in update_cols THEN sr[c] ELSE t[c]]
        not_matched == {sr \in using : \A t \in rows : ~Matches(t, sr)}
        rank(sr) == Cardinality({x \in not_matched : x.id < sr.id})
        inserted == {[c \in AllColumns |->
                        IF c \in col_names THEN sr[c] ELSE nextId + rank(sr)] :
                     sr \in not_matched}
        result == {updated(t) : t \in rows} \cup inserted
        generated == IF "id" \in col_names THEN 0 ELSE Cardinality(not_matched)
        on == [c \in mcols |-> MatchOperator(c, source_null, target_null)]
    IN  IF ~FilterWellFormed(cols, vals)
        THEN [error |-> "BackendError", rows |-> rows, seq |-> nextId, match_stmt |-> NoMatch]
        ELSE IF mcols = {}
        THEN [error |-> "ValueError", rows |-> rows, seq |-> nextId, match_stmt |-> NoMatch]
        ELSE IF update_cols = {}                     \* "update set" with nothing to set
        THEN [error |-> "BackendError", rows |-> rows, seq |-> nextId, match_stmt |-> on]
        ELSE IF \E t \in rows : Cardinality(matched(t)) > 1
        THEN [error |-> "BackendError", rows |-> rows, seq |-> nextId, match_stmt |-> on]
        ELSE IF ~(ConstraintsHold(s, result) /\ ForeignKeyHolds(s, result, ch))
        THEN [error |-> "BackendError", rows |-> rows, seq |-> nextId + generated,
              match_stmt |-> on]
        ELSE [error |-> "none", rows |-> result, seq |-> nextId + generated,
              match_stmt |-> on]

-----------------------------------------------------------------------------
(* The state machine of one connector making an upsert call, twice. *)

Row(i, c, e) == [id |-> i, code |-> c, extra |-> e]

InitialTargets ==
    {{}, {Row(1, "A", OldExtra)}, {Row(1, "A", NewExtra)}, {Row(1, "A", Null)},
     {Row(1, "A", OldExtra), Row(2, "B", OldExtra)}}

\* The child rows: none, or one that references the parent row with id 1.
InitialChildren(s, rows) ==
    {{}} \cup (IF s.fk # "none" /\ rows # {} THEN {{[ref |-> Row(1, "A", OldExtra)[s.fk]]}}
               ELSE {})

\* The records: with the code alone, with a new value of extra, or (code "A")
\* with None for extra.
RecordShapes ==
    {[code |-> c, extra |-> NewExtra] : c \in Codes} \cup {[code |-> c] : c \in Codes}
        \cup {[code |-> "A", extra |-> Null]}

\* The batches: lists of one to MaxBatch records that have the same columns.
Batches ==
    UNION {{d \in [1..n -> RecordShapes] : \A i \in 1..n : DOMAIN d[i] = DOMAIN d[1]} :
           n \in 1..MaxBatch}

DataCols(data) == DOMAIN data[1]

\* The calls: upsert(data, table, upsert_cols) with upsert_cols None or a
\* non-empty list of columns: columns of the table, which the records have or
\* lack, or a column the table does not have.
Calls ==
    [data : Batches,
     upsert_cols : {NoCols} \cup (SUBSET {"code", "extra"} \ {{}}) \cup {{"ghost"}}]

NotEnded == [error |-> "not ended", rows |-> {}]

Init ==
    /\ schema \in Schemas
    /\ target \in InitialTargets
    /\ child \in InitialChildren(schema, target)
    /\ staging = [exists |-> FALSE, rows |-> {}]
    /\ seq = Cardinality(target) + 1
    /\ relationships = {}
    /\ args \in Calls
    /\ pc = "resolve"
    /\ run = 1
    /\ lookup = NoCols
    /\ merge_cols = NoCols
    /\ pending = NoTx
    /\ error = "none"
    /\ stmts = {}
    /\ pre = target
    /\ first = NotEnded
    /\ nrec = 0
    /\ chunks = <<>>
    /\ session = "none"
    /\ supplied = {}
    /\ catalog = CatalogRelationships(schema)
    /\ queries = <<>>
    /\ returned = NoCall
    /\ match_stmt = NoMatch
    /\ frame = NoFrame
    /\ NotConnected

\* The call ends with an exception: its session is never committed.
Raise(kind) ==
    /\ pc' = "raised"
    /\ error' = kind
    /\ pending' = NoTx
    /\ first' = IF run = 1 THEN [error |-> kind, rows |-> target'] ELSE first

\* upsert(), lines 916-950: the upsert columns, given or from get_merge_columns,
\* and the check that the table has them.
Resolve ==
    /\ pc = "resolve"
    /\ session' = IF args.upsert_cols = NoCols /\ get_merge_columns(schema, NoCols).raised
                  THEN session ELSE "idle"
    /\ UNCHANGED graphVars
    /\ UNCHANGED <<match_stmt, frame>>
    /\ UNCHANGED <<schema, target, child, staging, seq, relationships, args, run,
                   merge_cols, stmts, pre, nrec, chunks, supplied, connVars>>
    /\ IF args.upsert_cols # NoCols
       THEN IF args.upsert_cols \subseteq AllColumns
            THEN /\ lookup' = args.upsert_cols
                 /\ pc' = "decide"
                 /\ UNCHANGED <<pending, error, first>>
            ELSE /\ Raise("ValueError")
                 /\ UNCHANGED lookup
       ELSE IF get_merge_columns(schema, NoCols).raised
            THEN /\ Raise("ValueError")
                 /\ UNCHANGED lookup
            ELSE /\ \E chosen \in get_merge_columns(schema, NoCols).choices : lookup' = chosen
                 /\ pc' = "decide"
                 /\ UNCHANGED <<pending, error, first>>

\* upsert(), lines 953-967: the strategy. MERGE when the table has dependent
\* tables and rows of them reference rows the lookup values select; the merge
\* columns then come from get_merge_columns and must pass is_unique_constraint.
Decide ==
    /\ pc = "decide"
    /\ relationships' = setup_fkey_relationships(relationships, catalog, FALSE, FALSE)
    /\ queries' = IF QueriesCatalog(relationships, FALSE)
                  THEN Append(queries, [skip_builtins |-> FALSE, overwrite |-> FALSE])
                  ELSE queries
    /\ UNCHANGED <<session, catalog, returned>>
    /\ UNCHANGED <<match_stmt, frame>>
    /\ UNCHANGED <<schema, target, child, staging, seq, args, run, lookup, stmts, pre,
                   nrec, chunks, supplied, connVars>>
    /\ LET vals == UpsertVals(args.data, lookup)
           down == downstream_data_exists_for_cols(relationships', schema, target,
                                                   child, lookup, vals)
           chosen == get_merge_columns(schema, DataCols(args.data))
       IN  IF ~has_dependent_tables(relationships', TargetName)
           THEN /\ pc' = "delete"
                /\ UNCHANGED <<merge_cols, pending, error, first>>
           ELSE IF down.raised
           THEN /\ Raise("BackendError")
                /\ UNCHANGED merge_cols
           ELSE IF ~down.exists
           THEN /\ pc' = "delete"
                /\ UNCHANGED <<merge_cols, pending, error, first>>
           ELSE IF chosen.raised
           THEN /\ Raise("ValueError")
                /\ UNCHANGED merge_cols
           ELSE \E cols \in chosen.choices :
                   IF is_unique_constraint(schema, cols)
                   THEN /\ merge_cols' = cols
                        /\ pc' = "create_staging"
                        /\ UNCHANGED <<pending, error, first>>
                   ELSE /\ Raise("ValueError")
                        /\ UNCHANGED merge_cols

\* The rows "DELETE ... WHERE (<lookup>) IN (<values>)" removes.
DeleteMatches(rows, cols, vals) == {r \in rows : Project(r, cols) \in vals}

\* The DELETE sent with execute(), which commits it on a session of its own.
DeleteRows_autocommit ==
    /\ pc = "delete"
    /\ session' = "active"
    /\ UNCHANGED graphVars
    /\ stmts' = stmts \cup {"DELETE"}
    /\ UNCHANGED <<match_stmt, frame>>
    /\ UNCHANGED <<schema, child, staging, seq, relationships, args, run, lookup,
                   merge_cols, pre, nrec, chunks, supplied, connVars>>
    /\ LET vals == UpsertVals(args.data, lookup)
           kept == target \ DeleteMatches(target, lookup, vals)
       IN  IF FilterWellFormed(lookup, vals) /\ ForeignKeyHolds(schema, kept, child)
           THEN /\ target' = kept
                /\ pending' = Tx(kept)
                /\ pc' = "insert"
                /\ UNCHANGED <<error, first>>
           ELSE /\ UNCHANGED target
                /\ Raise("BackendError")

\* upsert(), lines 973-980: the DELETE, on the call's session.
DeleteRows ==
    /\ pc = "delete"
    /\ session' = "active"
    /\ UNCHANGED graphVars
    /\ stmts' = stmts \cup {"DELETE"}
    /\ UNCHANGED <<match_stmt, frame>>
    /\ UNCHANGED <<schema, target, child, staging, seq, relationships, args, run, lookup,
                   merge_cols, pre, nrec, chunks, supplied, connVars>>
    /\ LET vals == UpsertVals(args.data, lookup)
           kept == target \ DeleteMatches(target, lookup, vals)
       IN  IF FilterWellFormed(lookup, vals) /\ ForeignKeyHolds(schema, kept, child)
           THEN /\ pending' = Tx(kept)
                /\ pc' = "insert"
                /\ UNCHANGED <<error, first>>
           ELSE Raise("BackendError")

\* upsert(), line 982: write(data, table, session=session, mode=APPEND).
InsertRows ==
    /\ pc = "insert"
    /\ UNCHANGED graphVars
    /\ stmts' = stmts \cup {"INSERT"}
    /\ UNCHANGED <<match_stmt, frame>>
    /\ UNCHANGED <<schema, child, staging, relationships, args, run, lookup, merge_cols,
                   pre, nrec, chunks, supplied, connVars>>
    /\ LET w == write(target, pending.rows, args.data, "APPEND", TRUE, FALSE, schema, seq,
                      ChunkLimit)
       IN  /\ target' = w.committed
           /\ seq' = w.seq
           /\ session' = IF w.ok /\ Len(args.data) > ChunkLimit THEN "closed" ELSE "active"
           /\ IF w.ok
              THEN /\ pending' = w.pending
                   /\ pc' = "finalize"
                   /\ UNCHANGED <<error, first>>
              ELSE Raise("BackendError")

\* The transaction of the call's session, upsert() line 943: status is the
\* flag the psycopg2 connection keeps for itself (READY until it has sent a
\* BEGIN, then BEGIN until its commit() or rollback()), in_tx says whether the
\* server has a transaction open for it, locks are the tables that transaction
\* has locked.
StagingName == "app.parent_staging"
SessionBegin == [op |-> "session", status |-> "READY", in_tx |-> FALSE, locks |-> {}]

\* A connection that sends BEGIN whenever the server has no transaction open.
SendsBegin_follows_server(tx) == ~tx.in_tx

\* The connection sends BEGIN before a statement when its own flag is READY.
SendsBegin(tx) == tx.status = "READY"

\* session.execute(statement): the statement locks the tables it names until
\* the end of the server's transaction; without one it is committed at once
\* and keeps no lock.
SessionExecute(tx, tables) ==
    IF SendsBegin(tx)
    THEN [tx EXCEPT !.status = "BEGIN", !.in_tx = TRUE, !.locks = tables]
    ELSE IF tx.in_tx THEN [tx EXCEPT !.locks = tx.locks \cup tables]
    ELSE tx

\* The COMMIT inside the text of lines 188-193 ends the server's transaction;
\* the connection, which did not send it, keeps its flag.
TextualCommit(tx) == [tx EXCEPT !.in_tx = FALSE, !.locks = {}]

\* create_staging_table(), lines 180-194: drop table if exists, then the
\* CREATE TABLE ... (LIKE ... INCLUDING ALL) with its COMMIT.
CreateStaging ==
    /\ pc = "create_staging"
    /\ session' = "active"
    /\ UNCHANGED graphVars
    /\ staging' = [exists |-> TRUE, rows |-> {}]
    /\ stmts' = stmts \cup {"CREATE_STAGING"}
    /\ pc' = "load_staging"
    /\ frame' = TextualCommit(SessionExecute(SessionExecute(SessionBegin, {StagingName}),
                                             {TargetName, StagingName}))
    /\ UNCHANGED match_stmt
    /\ UNCHANGED <<schema, target, child, seq, relationships, args, run, lookup,
                   merge_cols, pending, error, pre, first, nrec, chunks, supplied, connVars>>

\* create_staging_table(), lines 195-196: write(data, staging, mode=OVERWRITE)
\* on a session of its own. The staging table has the target's keys; a serial
\* id draws from the target's sequence, an identity from one of its own.
LoadStaging ==
    /\ pc = "load_staging"
    /\ UNCHANGED session
    /\ UNCHANGED graphVars
    /\ stmts' = stmts \cup {"LOAD_STAGING"}
    /\ UNCHANGED <<match_stmt, frame>>
    /\ UNCHANGED <<schema, target, child, relationships, args, run, lookup, merge_cols,
                   pre, nrec, chunks, supplied, connVars>>
    /\ LET shared == schema.idKind = "serial"
           w == write(staging.rows, staging.rows, args.data, "OVERWRITE", FALSE, FALSE,
                      schema, IF shared THEN seq ELSE 1, ChunkLimit)
       IN  /\ staging' = [exists |-> TRUE, rows |-> w.committed]
           /\ seq' = IF shared THEN w.seq ELSE seq
           /\ IF w.ok
              THEN /\ pc' = "merge"
                   /\ UNCHANGED <<pending, error, first>>
              ELSE Raise("BackendError")

\* merge_data(), line 1066: merge_tables on the call's session. Its statements
\* read the staging table and write the target; with no transaction open on
\* the server the MERGE is committed as it runs.
MergeTables ==
    /\ pc = "merge"
    /\ session' = "active"
    /\ UNCHANGED graphVars
    /\ stmts' = stmts \cup {"MERGE"}
    /\ UNCHANGED <<schema, child, staging, relationships, args, run, lookup,
                   merge_cols, pre, nrec, chunks, supplied, connVars>>
    /\ LET m == merge_tables(target, staging.rows, schema, merge_cols, lookup,
                             UpsertVals(args.data, lookup), child, seq)
       IN  /\ seq' = m.seq
           /\ match_stmt' = m.match_stmt
           /\ frame' = SessionExecute(frame, {StagingName, TargetName})
           /\ IF m.error = "none"
              THEN /\ pending' = Tx(m.rows)
                   /\ target' = IF frame'.in_tx THEN target ELSE m.rows
                   /\ pc' = "drop"
                   /\ UNCHANGED <<error, first>>
              ELSE /\ UNCHANGED target
                   /\ Raise(m.error)

\* merge_data(), line 1067: drop_table(staging_table_name), a DROP TABLE on a
\* session of its own: it waits for as long as another transaction holds a
\* lock on the staging table.
DropTable ==
    /\ pc = "drop"
    /\ StagingName \notin frame.locks
    /\ UNCHANGED session
    /\ UNCHANGED graphVars
    /\ staging' = [exists |-> FALSE, rows |-> {}]
    /\ stmts' = stmts \cup {"DROP_STAGING"}
    /\ pc' = "finalize"
    /\ UNCHANGED <<match_stmt, frame>>
    /\ UNCHANGED <<schema, target, child, seq, relationships, args, run, lookup,
                   merge_cols, pending, error, pre, first, nrec, chunks, supplied, connVars>>

\* upsert(), line 984: __finalize_transaction commits the call's own session.
Finalize ==
    /\ pc = "finalize"
    /\ session' = "closed"
    /\ UNCHANGED graphVars
    /\ target' = IF pending.open THEN pending.rows ELSE target
    /\ pending' = NoTx
    /\ pc' = "done"
    /\ first' = IF run = 1 THEN [error |-> "none", rows |-> target'] ELSE first
    /\ frame' = NoFrame
    /\ UNCHANGED match_stmt
    /\ UNCHANGED <<schema, child, staging, seq, relationships, args, run, lookup,
                   merge_cols, error, stmts, pre, nrec, chunks, supplied, connVars>>

\* The caller makes the same call again.
Again ==
    /\ pc \in {"done", "raised"}
    /\ session' = "none"
    /\ UNCHANGED graphVars
    /\ run = 1
    /\ run' = 2
    /\ pc' = "resolve"
    /\ pre' = target
    /\ lookup' = NoCols
    /\ merge_cols' = NoCols
    /\ error' = "none"
    /\ stmts' = {}
    /\ match_stmt' = NoMatch
    /\ UNCHANGED frame
    /\ UNCHANGED <<schema, target, child, staging, seq, relationships, args, pending,
                   first, nrec, chunks, supplied, connVars>>

Next ==
    \/ Resolve
    \/ Decide
    \/ DeleteRows
    \/ InsertRows
    \/ CreateStaging
    \/ LoadStaging
    \/ MergeTables
    \/ DropTable
    \/ Finalize
    \/ Again

Spec == Init /\ [][Next]_vars

-----------------------------------------------------------------------------
(* The chunked writer on its own: write() of a batch of nrec records, every *)
(* chunk succeeding.                                                        *)

Quiet ==
    /\ session = "none"
    /\ supplied = {}
    /\ queries = <<>>
    /\ returned = NoCall
    /\ match_stmt = NoMatch
    /\ NotConnected
    /\ schema = [pk |-> "none", idKind |-> "always", uniques |-> {}, fk |-> "none"]
    /\ target = {}
    /\ child = {}
    /\ staging = [exists |-> FALSE, rows |-> {}]
    /\ seq = 1
    /\ relationships = {}
    /\ args = [data |-> <<>>, upsert_cols |-> NoCols]
    /\ run = 1
    /\ lookup = NoCols
    /\ merge_cols = NoCols
    /\ pending = NoTx
    /\ error = "none"
    /\ stmts = {}
    /\ pre = {}
    /\ first = NotEnded

InitChunks ==
    /\ Quiet
    /\ frame = NoFrame
    /\ catalog = {}
    /\ nrec \in 1..MaxRecords
    /\ chunks = <<>>
    /\ pc = "write"

\* write(), lines 817-830: above 10000 records __write_in_chunks writes the
\* slices, each with an APPEND of its own that commits; otherwise one INSERT
\* of the whole batch.
WriteBatch ==
    /\ pc = "write"
    /\ chunks' = IF nrec > CHUNK_SIZE THEN ChunkSlices(nrec, CHUNK_SIZE) ELSE <<<<0, nrec>>>>
    /\ pc' = "written"
    /\ UNCHANGED <<match_stmt, frame>>
    /\ UNCHANGED <<schema, target, child, staging, seq, relationships, args, run, lookup,
                   merge_cols, pending, error, stmts, pre, first, nrec, session, supplied,
                   graphVars, connVars>>

NextChunks == WriteBatch

SpecChunks == InitChunks /\ [][NextChunks]_vars

-----------------------------------------------------------------------------
(* A direct call of write(data, table, mode) with APPEND or OVERWRITE and no  *)
(* session of the caller, followed statement by statement.                   *)

\* An id the caller puts in a record.
SuppliedId == 9

\* Batches whose records carry an id of their own.
BatchesWithId ==
    UNION {{[i \in 1..n |-> [id |-> SuppliedId + i, code |-> f[i]]] : f \in [1..n -> Codes]} :
           n \in 1..MaxBatch}

\* data is a list of records, or one record given as a dict; table_schema is
\* None or names the columns of the table.
WriteCalls ==
    {a \in [data : Batches \cup BatchesWithId, mode : {"APPEND", "OVERWRITE"},
            shape : {"list", "dict"}, table_schema : {NoCols, AllColumns}] :
        a.shape = "dict" => Len(a.data) = 1}

\* write(), lines 784-790: the columns the records may give values for.
WriteColumns(s, table_schema) ==
    IF table_schema = NoCols THEN get_table_columns(s) ELSE table_schema

\* write(), lines 800-808: a list of dicts is cut down to those columns; a dict
\* is passed to the INSERT as it is.
SuppliedColumns(rec, shape, columns) ==
    IF shape = "list" THEN DOMAIN rec \cap columns ELSE DOMAIN rec

\* The rows the session sees.
SessionRows == IF pending.open THEN pending.rows ELSE target

InitWrite ==
    /\ schema \in Schemas
    /\ target \in InitialTargets
    /\ child \in InitialChildren(schema, target)
    /\ staging = [exists |-> FALSE, rows |-> {}]
    /\ seq = Cardinality(target) + 1
    /\ relationships = {}
    /\ args \in WriteCalls
    /\ pc = "w_begin"
    /\ run = 1
    /\ lookup = NoCols
    /\ merge_cols = NoCols
    /\ pending = NoTx
    /\ error = "none"
    /\ stmts = {}
    /\ pre = target
    /\ first = NotEnded
    /\ nrec = 0
    /\ chunks = <<>>
    /\ session = "none"
    /\ supplied = {}
    /\ catalog = CatalogRelationships(schema)
    /\ queries = <<>>
    /\ returned = NoCall
    /\ match_stmt = NoMatch
    /\ frame = NoFrame
    /\ NotConnected

\* The exception leaves write(): nothing of the session is committed.
WriteRaise(kind) ==
    /\ pc' = "raised"
    /\ error' = kind
    /\ pending' = NoTx

\* write() with OVERWRITE sending no DELETE before it inserts.
WriteBegin_without_delete ==
    /\ pc = "w_begin"
    /\ UNCHANGED <<match_stmt, frame>>
    /\ UNCHANGED <<schema, target, child, staging, seq, relationships, args, run, lookup,
                   merge_cols, pre, first, nrec, chunks, supplied, graphVars, connVars>>
    /\ session' = "idle"
    /\ pc' = IF args.shape = "list" /\ Len(args.data) > ChunkLimit
             THEN "w_chunk" ELSE "w_insert"
    /\ UNCHANGED <<stmts, pending, error>>

\* write(), lines 777-798 and 817-822: the session, OVERWRITE's DELETE of every
\* row (its setval selects from the emptied table and so runs for no row), and
\* the choice between the chunked writer and one INSERT.
WriteBegin ==
    /\ pc = "w_begin"
    /\ UNCHANGED <<match_stmt, frame>>
    /\ UNCHANGED <<schema, target, child, staging, seq, relationships, args, run, lookup,
                   merge_cols, pre, first, nrec, chunks, supplied, graphVars, connVars>>
    /\ IF args.mode = "OVERWRITE"
       THEN /\ stmts' = stmts \cup {"DELETE"}
            /\ session' = "active"
            /\ IF ForeignKeyHolds(schema, {}, child)
               THEN /\ pending' = Tx({})
                    /\ pc' = IF args.shape = "list" /\ Len(args.data) > ChunkLimit
                             THEN "w_chunk" ELSE "w_insert"
                    /\ UNCHANGED error
               ELSE WriteRaise("BackendError")
       ELSE /\ session' = "idle"
            /\ pc' = IF args.shape = "list" /\ Len(args.data) > ChunkLimit
                     THEN "w_chunk" ELSE "w_insert"
            /\ UNCHANGED <<stmts, pending, error>>

\* write(), lines 829-830: the INSERT of the whole batch and the commit of
\* __finalize_transaction, which closes the session. The database refuses a
\* value for an identity-always column.
WriteInsert ==
    /\ pc = "w_insert"
    /\ stmts' = stmts \cup {"INSERT"}
    /\ UNCHANGED <<match_stmt, frame>>
    /\ UNCHANGED <<schema, child, staging, relationships, args, run, lookup, merge_cols,
                   pre, first, nrec, graphVars, connVars>>
    /\ LET columns == WriteColumns(schema, args.table_schema)
           given == UNION {SuppliedColumns(args.data[i], args.shape, columns) :
                           i \in 1..Len(args.data)}
           generated == IF "id" \in given THEN 0 ELSE Len(args.data)
           new == SessionRows \cup NewRows(args.data, schema, seq)
       IN  /\ supplied' = supplied \cup given
           /\ IF given \cap get_id_columns(schema) = {} /\ ConstraintsHold(schema, new)
              THEN /\ target' = new
                   /\ seq' = seq + generated
                   /\ pending' = NoTx
                   /\ session' = "closed"
                   /\ chunks' = <<<<0, Len(args.data)>>>>
                   /\ pc' = "returned"
                   /\ UNCHANGED error
              ELSE /\ session' = "active"
                   /\ WriteRaise("BackendError")
                   /\ UNCHANGED <<target, seq, chunks>>

\* __write_in_chunks writing its slices with do_commit=False.
WriteChunk_without_commit ==
    /\ pc = "w_chunk"
    /\ Len(chunks) < Len(ChunkSlices(Len(args.data), ChunkLimit))
    /\ stmts' = stmts \cup {"INSERT"}
    /\ session' = "active"
    /\ UNCHANGED <<match_stmt, frame>>
    /\ UNCHANGED <<schema, child, staging, relationships, args, run, lookup, merge_cols,
                   pre, first, nrec, graphVars, connVars>>
    /\ LET slice == ChunkSlices(Len(args.data), ChunkLimit)[Len(chunks) + 1]
           chunk_elems == SubSeq(args.data, slice[1] + 1, slice[2])
           columns == WriteColumns(schema, NoCols)
           given == UNION {SuppliedColumns(chunk_elems[i], "list", columns) :
                           i \in 1..Len(chunk_elems)}
           w == write(target, SessionRows, chunk_elems, "APPEND", TRUE, FALSE, schema, seq,
                      ChunkLimit)
       IN  /\ supplied' = supplied \cup given
           /\ seq' = w.seq
           /\ target' = w.committed
           /\ IF w.ok
              THEN /\ pending' = w.pending
                   /\ chunks' = Append(chunks, slice)
                   /\ UNCHANGED <<pc, error>>
              ELSE /\ WriteRaise("BackendError")
                   /\ UNCHANGED chunks

\* __write_in_chunks, lines 1607-1611: the next slice, written by write() with
\* mode APPEND on the session and do_commit=True.
WriteChunk ==
    /\ pc = "w_chunk"
    /\ Len(chunks) < Len(ChunkSlices(Len(args.data), ChunkLimit))
    /\ stmts' = stmts \cup {"INSERT"}
    /\ session' = "active"
    /\ UNCHANGED <<match_stmt, frame>>
    /\ UNCHANGED <<schema, child, staging, relationships, args, run, lookup, merge_cols,
                   pre, first, nrec, graphVars, connVars>>
    /\ LET slice == ChunkSlices(Len(args.data), ChunkLimit)[Len(chunks) + 1]
           chunk_elems == SubSeq(args.data, slice[1] + 1, slice[2])
           columns == WriteColumns(schema, NoCols)
           given == UNION {SuppliedColumns(chunk_elems[i], "list", columns) :
                           i \in 1..Len(chunk_elems)}
           w == write(target, SessionRows, chunk_elems, "APPEND", TRUE, TRUE, schema, seq,
                      ChunkLimit)
       IN  /\ supplied' = supplied \cup given
           /\ seq' = w.seq
           /\ target' = w.committed
           /\ IF w.ok
              THEN /\ pending' = w.pending
                   /\ chunks' = Append(chunks, slice)
                   /\ UNCHANGED <<pc, error>>
              ELSE /\ WriteRaise("BackendError")
                   /\ UNCHANGED chunks

\* __write_in_chunks, line 1613: session.close() after the last slice.
WriteChunksEnd ==
    /\ pc = "w_chunk"
    /\ Len(chunks) = Len(ChunkSlices(Len(args.data), ChunkLimit))
    /\ session' = "closed"
    /\ pc' = "returned"
    /\ UNCHANGED <<match_stmt, frame>>
    /\ UNCHANGED <<schema, target, child, staging, seq, relationships, args, run, lookup,
                   merge_cols, pending, error, stmts, pre, first, nrec, chunks, supplied,
                   graphVars, connVars>>

NextWrite ==
    \/ WriteBegin
    \/ WriteInsert
    \/ WriteChunk
    \/ WriteChunksEnd

SpecWrite == InitWrite /\ [][NextWrite]_vars

-----------------------------------------------------------------------------
(* The relationship graph of one connector over a database whose foreign     *)
(* keys do not change.                                                       *)

Keys == {{"id"}, {"code"}}
Edges == [parent : Tables, child : Tables, pkey : Keys]
Catalogs == {c \in SUBSET Edges : Cardinality(c) <= MaxEdges}

\* parent_column as the caller passes it: a str, or a tuple of column names.
ParentColumns == [kind : {"str", "tuple"}, cols : Keys]

InitGraph ==
    /\ Quiet
    /\ frame = NoFrame
    /\ catalog \in Catalogs
    /\ nrec = 0
    /\ chunks = <<>>
    /\ pc = "graph"

\* What a call on the graph leaves behind: the graph, and the catalog query
\* in the log when it sent one.
GraphCall(skip_builtins, overwrite) ==
    /\ QueriesCatalog(relationships, overwrite) => Len(queries) < MaxQueries
    /\ relationships' = setup_fkey_relationships(relationships, catalog, skip_builtins,
                                                 overwrite)
    /\ queries' = IF QueriesCatalog(relationships, overwrite)
                  THEN Append(queries, [skip_builtins |-> skip_builtins,
                                        overwrite |-> overwrite])
                  ELSE queries
    /\ UNCHANGED <<match_stmt, frame>>
    /\ UNCHANGED <<schema, target, child, staging, seq, args, pc, run, lookup, merge_cols,
                   pending, error, stmts, pre, first, nrec, chunks, session, supplied,
                   catalog, connVars>>

\* setup_fkey_relationships(skip_builtins, overwrite), called directly.
SetupRelationships ==
    \E skip_builtins, overwrite \in BOOLEAN :
        /\ GraphCall(skip_builtins, overwrite)
        /\ returned' = [op |-> "setup_fkey_relationships", overwrite |-> overwrite,
                        value |-> "None"]

\* get_foreign_keys(parent_table), lines 537-541.
GetForeignKeys ==
    \E parent_table \in Tables :
        /\ GraphCall(TRUE, FALSE)
        /\ returned' = [op |-> "get_foreign_keys", overwrite |-> FALSE,
                        value |-> IF has_dependent_tables(relationships', parent_table)
                                  THEN get_foreign_keys(relationships', parent_table)
                                  ELSE "None"]

\* get_foreign_key_parents(child_table), lines 480-505.
GetForeignKeyParents ==
    \E child_table \in Tables :
        /\ GraphCall(TRUE, FALSE)
        /\ returned' = [op |-> "get_foreign_key_parents", overwrite |-> FALSE,
                        value |-> get_foreign_key_parents(relationships', child_table)]

\* tables_are_linked_by(parent_table, child_table, parent_column).
TablesAreLinkedBy ==
    \E parent_table, child_table \in Tables : \E parent_column \in ParentColumns :
        /\ GraphCall(TRUE, FALSE)
        /\ LET r == tables_are_linked_by(relationships', parent_table, child_table,
                                         parent_column, {})
           IN  returned' = [op |-> "tables_are_linked_by", overwrite |-> FALSE,
                            parent_table |-> parent_table, child_table |-> child_table,
                            parent_column |-> parent_column, value |-> r.value,
                            calls |-> r.calls]

NextGraph ==
    \/ SetupRelationships
    \/ GetForeignKeys
    \/ GetForeignKeyParents
    \/ TablesAreLinkedBy

SpecGraph == InitGraph /\ [][NextGraph]_vars

-----------------------------------------------------------------------------
(* The engine and connection caches of one process, over the connectors it  *)
(* constructs and the connect calls it makes.                               *)

\* The dialects a caller may name: members of SQLDialect with an engine
\* branch in connect (POSTGRES, TSQL), with a connection string template only
\* (REDSHIFT), without a template (SNOWFLAKE), and a name that is no member.
Dialects == {"POSTGRES", "TSQL", "REDSHIFT", "SNOWFLAKE", "BOGUS"}
Members == Dialects \ {"BOGUS"}
Templated == {"POSTGRES", "TSQL", "REDSHIFT"}
WithEngine == {"POSTGRES", "TSQL"}

\* The connection parameters: of one of two databases, or lacking dbname.
LacksDbname == "no dbname"
Databases == {"db1", "db2"}
SslModes == {"None", "require"}

\* What a construction or a connect call is given: the dialect, the
\* connection parameters and the extra connection option sslmode.
ConnectRequests ==
    [dialect : Dialects, conn_kwargs : Databases \cup {LacksDbname}, sslmode : SslModes]

\* conn_template.format(**self.conn_kwargs): the dialect's template filled in.
\* A connection string is the text of the template, what was put before it
\* and what was put after it.
conn_string(dialect, conn_kwargs) ==
    [prefix |-> "", template |-> dialect, kwargs |-> conn_kwargs, suffix |-> ""]

\* The string connect holds after the engine branch, lines 371-378.
EngineString(conn_str, req) ==
    IF req.dialect = "POSTGRES"
    THEN IF req.sslmode # "None"
         THEN [conn_str EXCEPT !.suffix = "?sslmode=" \o req.sslmode]
         ELSE conn_str
    ELSE IF req.dialect = "TSQL"
    THEN [conn_str EXCEPT !.prefix = "DRIVER={ODBC Driver 18 for SQL Server}"]
    ELSE conn_str

\* d[k] = v.
Put(d, k, v) == [x \in DOMAIN d \cup {k} |-> IF x = k THEN v ELSE d[x]]

\* The handles of one kind created so far.
Created(kind) == {i \in 1..Len(created) : created[i].kind = kind}

\* The error connect raises before it creates or caches anything, "none" if
\* it raises none: __validate (lines 1792-1809), the template lookup (line
\* 365), the template's format (line 366) and, for a dialect without an
\* engine branch, the read of self.engine at line 380 on a connector that has
\* none (has_engine is whether an earlier connect of the instance set one).
ConnectError(req, form, has_engine) ==
    IF form = "str" /\ req.dialect \notin Members THEN "ValueError"
    ELSE IF form = "enum" /\ req.dialect \notin Templated THEN "ValueError"
    ELSE IF req.dialect \notin Templated THEN "KeyError"
    ELSE IF req.conn_kwargs = LacksDbname THEN "KeyError"
    ELSE IF /\ conn_string(req.dialect, req.conn_kwargs) \notin DOMAIN ENGINE_CACHE
            /\ req.dialect \notin WithEngine
            /\ ~has_engine
    THEN "AttributeError"
    ELSE "none"

InitConnect ==
    /\ Quiet
    /\ frame = NoFrame
    /\ catalog = {}
    /\ nrec = 0
    /\ chunks = <<>>
    /\ pc = "connect"

\* connect(dialect, conn_kwargs, **extra_conn_kwargs), from the constructor
\* of a new connector (fresh) or on the connector that connected last. run
\* counts the calls; args and error keep the call and how it ended.
Connect ==
    \E req \in ConnectRequests : \E form \in {"enum", "str"} : \E fresh \in BOOLEAN :
        LET has_engine == ~fresh /\ connector.engine # 0
            raised == ConnectError(req, form, has_engine)
            looked_up == conn_string(req.dialect, req.conn_kwargs)
            hit == looked_up \in DOMAIN ENGINE_CACHE
            conn_str == IF hit THEN looked_up ELSE EngineString(looked_up, req)
            made == ~hit /\ req.dialect \in WithEngine
            engine == IF hit THEN ENGINE_CACHE[looked_up]
                      ELSE IF made THEN Cardinality(Created("engine")) + 1
                      ELSE connector.engine
            conn_hit == conn_str \in DOMAIN CONN_CACHE
            conn == IF conn_hit THEN CONN_CACHE[conn_str]
                    ELSE [id |-> Cardinality(Created("connection")) + 1, engine |-> engine]
        IN  /\ run <= MaxConnects
            /\ fresh \/ connector.engine # 0
            /\ form = "enum" => req.dialect \in Members
            /\ run' = run + 1
            /\ args' = [req |-> req, form |-> form, fresh |-> fresh]
            /\ error' = raised
            /\ IF raised # "none"
               THEN UNCHANGED <<ENGINE_CACHE, CONN_CACHE, created, connector, relationships>>
               ELSE /\ ENGINE_CACHE' = IF hit THEN ENGINE_CACHE
                                       ELSE Put(ENGINE_CACHE, conn_str, engine)
                    /\ CONN_CACHE' = IF conn_hit THEN CONN_CACHE
                                     ELSE Put(CONN_CACHE, conn_str, conn)
                    /\ created' = created
                         \o (IF made
                             THEN <<[kind |-> "engine", req |-> req, handle |-> engine]>>
                             ELSE <<>>)
                         \o (IF conn_hit THEN <<>>
                             ELSE <<[kind |-> "connection", req |-> req, handle |-> conn]>>)
                    /\ connector' = [engine |-> engine, conn |-> conn, req |-> req]
                    /\ relationships' = {}
            /\ UNCHANGED <<match_stmt, frame>>
            /\ UNCHANGED <<schema, target, child, staging, seq, pc, lookup, merge_cols,
                           pending, stmts, pre, first, nrec, chunks, session, supplied,
                           graphVars>>

NextConnect == Connect

SpecConnect == InitConnect /\ [][NextConnect]_vars

-----------------------------------------------------------------------------
(* wrap_literal on temporal values, without type information.               *)

\* The temporal values: a date has a year, a month and a day, a time has an
\* hour, a minute and a second, and a datetime has all six.
DateParts == [year : {1999, 2024}, month : {1, 12}, day : {9, 31}]
TimeParts == [hour : {0, 23}, minute : {5, 59}, second : {0, 30}]
TemporalValues ==
    {[kind |-> "date", date |-> d] : d \in DateParts}
        \cup {[kind |-> "time", time |-> t] : t \in TimeParts}
        \cup {[kind |-> "datetime", date |-> d, time |-> t] : d \in DateParts, t \in TimeParts}

\* isinstance(val, cls): datetime is a subclass of date.
isinstance(val, cls) ==
    \/ val.kind = cls
    \/ val.kind = "datetime" /\ cls = "date"

\* A number in two digits, as %m, %d, %H, %M and %S print it.
TwoDigits(n) == IF n < 10 THEN "0" \o ToString(n) ELSE ToString(n)

\* val.strftime(fmt) for the formats of wrap_literal. Of a date, the time
\* directives print midnight.
strftime(val, fmt) ==
    LET ymd == ToString(val.date.year) \o "-" \o TwoDigits(val.date.month)
                   \o "-" \o TwoDigits(val.date.day)
        clock == IF val.kind = "date" THEN [hour |-> 0, minute |-> 0, second |-> 0]
                 ELSE val.time
        hms == TwoDigits(clock.hour) \o ":" \o TwoDigits(clock.minute)
                   \o ":" \o TwoDigits(clock.second)
    IN  IF fmt = "%Y-%m-%d" THEN ymd
        ELSE IF fmt = "%Y-%m-%d %H:%M:%S" THEN ymd \o " " \o hms
        ELSE hms

\* wrap_literal(val) of a temporal value: the first isinstance test that
\* passes formats it, and the text is put in quotes as any str is.
wrap_temporal_literal(val) ==
    LET text == IF isinstance(val, "date") THEN strftime(val, "%Y-%m-%d")
                ELSE IF isinstance(val, "datetime") THEN strftime(val, "%Y-%m-%d %H:%M:%S")
                ELSE strftime(val, "%H:%M:%S")
    IN  "'" \o text \o "'"

InitLiteral ==
    /\ Quiet
    /\ frame = NoFrame
    /\ catalog = {}
    /\ nrec = 0
    /\ chunks = <<>>
    /\ pc = "literal"

\* One call wrap_literal(val).
WrapLiteral ==
    \E val \in TemporalValues :
        /\ pc = "literal"
        /\ pc' = "wrapped"
        /\ returned' = [op |-> "wrap_literal", val |-> val,
                        value |-> wrap_temporal_literal(val)]
        /\ UNCHANGED <<match_stmt, frame>>
        /\ UNCHANGED <<schema, target, child, staging, seq, relationships, args, run, lookup,
                       merge_cols, pending, error, stmts, pre, first, nrec, chunks, session,
                       supplied, catalog, queries, connVars>>

\* The caller formats another value.
NextLiteral ==
    \/ WrapLiteral
    \/ /\ pc = "wrapped"
       /\ pc' = "literal"
       /\ UNCHANGED <<match_stmt, frame>>
       /\ UNCHANGED <<schema, target, child, staging, seq, relationships, args, run, lookup,
                      merge_cols, pending, error, stmts, pre, first, nrec, chunks, session,
                      supplied, graphVars, connVars>>

SpecLiteral == InitLiteral /\ [][NextLiteral]_vars

-----------------------------------------------------------------------------
(* get_random_temp_table_name(base_name, session, must_not_exist) over a    *)
(* database in which some of the names it can draw exist.                   *)

Suffixes == 1..SuffixRange

\* Lines 1196-1197: the first draw. frame.existing are the suffixes whose
\* name is that of an existing table.
InitTempName ==
    /\ Quiet
    /\ catalog = {}
    /\ nrec = 0
    /\ chunks = <<>>
    /\ pc = "name_loop"
    /\ \E existing \in SUBSET Suffixes : \E must_not_exist \in BOOLEAN :
         \E drawn \in Suffixes :
           frame = [op |-> "get_random_temp_table_name", existing |-> existing,
                    must_not_exist |-> must_not_exist, tmp_tbl_name |-> drawn,
                    retry_ct |-> 0]

\* self.table_exists(tmp_tbl_name, session)
table_exists(f) == f.tmp_tbl_name \in f.existing

\* The condition of the while loop, line 1198.
Retrying(f) == ~f.must_not_exist /\ table_exists(f) /\ f.retry_ct < MAX_RETRIES

\* Lines 1199-1200: one pass of the loop.
Redraw ==
    /\ pc = "name_loop"
    /\ Retrying(frame)
    /\ \E drawn \in Suffixes :
         frame' = [frame EXCEPT !.tmp_tbl_name = drawn, !.retry_ct = @ + 1]
    /\ UNCHANGED match_stmt
    /\ UNCHANGED <<schema, target, child, staging, seq, relationships, args, pc, run, lookup,
                   merge_cols, pending, error, stmts, pre, first, nrec, chunks, session,
                   supplied, graphVars, connVars>>

\* Lines 1201-1203: after the loop.
ReturnName ==
    /\ pc = "name_loop"
    /\ ~Retrying(frame)
    /\ IF frame.retry_ct = MAX_RETRIES
       THEN /\ pc' = "raised"
            /\ error' = "RuntimeError"
            /\ UNCHANGED returned
       ELSE /\ pc' = "returned"
            /\ returned' = [op |-> "get_random_temp_table_name",
                            value |-> frame.tmp_tbl_name]
            /\ UNCHANGED error
    /\ UNCHANGED <<match_stmt, frame>>
    /\ UNCHANGED <<schema, target, child, staging, seq, relationships, args, run, lookup,
                   merge_cols, pending, stmts, pre, first, nrec, chunks, session,
                   supplied, catalog, queries, connVars>>

NextTempName ==
    \/ Redraw
    \/ ReturnName

SpecTempName == InitTempName /\ [][NextTempName]_vars

-----------------------------------------------------------------------------
(* Two upsert calls that take the Merge path on the same target table and   *)
(* overlap in time: merge_data of each, statement by statement. The staging *)
(* table of both is <target>_staging.                                       *)

Operations == {1, 2}

\* The value of extra each operation writes, so that a row tells which
\* operation wrote it.
ExtraOf(p) == IF p = 1 THEN OldExtra ELSE NewExtra

MergeBatches(p) ==
    UNION {[1..n -> {[code |-> c, extra |-> ExtraOf(p)] : c \in Codes}] : n \in 1..2}

\* The target table of the two calls: code is its primary key and the child
\* table references it.
MergeSchema == [pk |-> "code", idKind |-> "serial", uniques |-> {}, fk |-> "code"]

\* The target holds a row with code "A" that a child row references.
InitStaging ==
    /\ schema = MergeSchema
    /\ target = {Row(1, "A", Null)}
    /\ child = {[ref |-> "A"]}
    /\ staging = [exists |-> FALSE, rows |-> {}]
    /\ seq = 2
    /\ catalog = CatalogRelationships(MergeSchema)
    /\ relationships = catalog
    /\ args = [data |-> <<>>, upsert_cols |-> {"code"}]
    /\ pc = "merge_data"
    /\ run = 1
    /\ lookup = {"code"}
    /\ merge_cols = {"code"}
    /\ pending = NoTx
    /\ error = "none"
    /\ stmts = {}
    /\ pre = target
    /\ first = NotEnded
    /\ nrec = 0
    /\ chunks = <<>>
    /\ session = "none"
    /\ supplied = {}
    /\ queries = <<>>
    /\ returned = NoCall
    /\ match_stmt = NoMatch
    /\ NotConnected
    /\ \E d1 \in MergeBatches(1) : \E d2 \in MergeBatches(2) :
         frame = [op |-> "merge_data",
                  ops |-> [p \in Operations |->
                             [pc |-> "drop_if_exists", data |-> IF p = 1 THEN d1 ELSE d2,
                              error |-> "none", source |-> {}, merged |-> FALSE]]]

\* What a step of operation p leaves: the operation's own position and
\* record; every step leaves the other operation's record alone.
StepTo(p, next, err) ==
    frame' = [frame EXCEPT !.ops[p].pc = next, !.ops[p].error = err]

StagingFrame ==
    /\ UNCHANGED match_stmt
    /\ UNCHANGED <<schema, child, relationships, args, pc, run, lookup, merge_cols,
                   pending, error, stmts, pre, first, nrec, chunks, session, supplied,
                   graphVars, connVars>>

\* create_staging_table(), line 181: drop table if exists <target>_staging.
DropIfExists(p) ==
    /\ frame.ops[p].pc = "drop_if_exists"
    /\ staging' = [exists |-> FALSE, rows |-> {}]
    /\ StepTo(p, "create", "none")
    /\ UNCHANGED <<target, seq>>
    /\ StagingFrame

\* create_staging_table(), lines 188-194: CREATE TABLE <target>_staging, which
\* fails when the table exists.
CreateTable(p) ==
    /\ frame.ops[p].pc = "create"
    /\ IF staging.exists
       THEN /\ StepTo(p, "raised", "BackendError")
            /\ UNCHANGED staging
       ELSE /\ StepTo(p, "load", "none")
            /\ staging' = [exists |-> TRUE, rows |-> {}]
    /\ UNCHANGED <<target, seq>>
    /\ StagingFrame

\* create_staging_table(), lines 195-196: write(data, staging, OVERWRITE),
\* which raises ValueError when the table does not exist.
LoadTable(p) ==
    /\ frame.ops[p].pc = "load"
    /\ IF ~staging.exists
       THEN /\ StepTo(p, "raised", "ValueError")
            /\ UNCHANGED <<staging, seq>>
       ELSE LET w == write(staging.rows, staging.rows, frame.ops[p].data, "OVERWRITE",
                           FALSE, FALSE, [MergeSchema EXCEPT !.fk = "none"], seq,
                           ChunkLimit)
            IN  /\ seq' = w.seq
                /\ staging' = [exists |-> TRUE, rows |-> w.committed]
                /\ StepTo(p, IF w.ok THEN "merge" ELSE "raised",
                          IF w.ok THEN "none" ELSE "BackendError")
    /\ UNCHANGED target
    /\ StagingFrame

\* merge_tables(), lines 1012-1058: the MERGE from the rows of the staging
\* table that the operation's lookup values select.
MergeStaging(p) ==
    /\ frame.ops[p].pc = "merge"
    /\ IF ~staging.exists
       THEN /\ StepTo(p, "raised", "BackendError")
            /\ UNCHANGED <<target, seq>>
       ELSE LET vals == UpsertVals(frame.ops[p].data, {"code"})
                m == merge_tables(target, staging.rows, MergeSchema, {"code"}, {"code"},
                                  vals, child, seq)
            IN  /\ seq' = m.seq
                /\ target' = m.rows
                /\ frame' = [frame EXCEPT
                               !.ops[p].pc = IF m.error = "none" THEN "drop" ELSE "raised",
                               !.ops[p].error = m.error,
                               !.ops[p].merged = TRUE,
                               !.ops[p].source =
                                   {r \in staging.rows : RowInFilter(r, {"code"}, vals)}]
    /\ UNCHANGED staging
    /\ StagingFrame

\* merge_data(), line 1067: drop_table(<target>_staging).
DropStaging(p) ==
    /\ frame.ops[p].pc = "drop"
    /\ IF ~staging.exists
       THEN /\ StepTo(p, "raised", "BackendError")
            /\ UNCHANGED staging
       ELSE /\ StepTo(p, "done", "none")
            /\ staging' = [exists |-> FALSE, rows |-> {}]
    /\ UNCHANGED <<target, seq>>
    /\ StagingFrame

NextStaging ==
    \E p \in Operations :
        \/ DropIfExists(p)
        \/ CreateTable(p)
        \/ LoadTable(p)
        \/ MergeStaging(p)
        \/ DropStaging(p)

SpecStaging == InitStaging /\ [][NextStaging]_vars

-----------------------------------------------------------------------------
(* write() on a session of its caller: the caller opens a session, deletes   *)
(* rows in it, calls write(data, table, mode, session=session) with the      *)
(* default do_commit=False and then rolls the session back.                  *)

CallerCalls == [data : Batches, mode : {"APPEND", "OVERWRITE"}]

InitCaller ==
    /\ session = "none"
    /\ supplied = {}
    /\ queries = <<>>
    /\ returned = NoCall
    /\ match_stmt = NoMatch
    /\ schema \in Schemas
    /\ target \in InitialTargets
    /\ child \in InitialChildren(schema, target)
    /\ staging = [exists |-> FALSE, rows |-> {}]
    /\ seq = Cardinality(target) + 1
    /\ relationships = {}
    /\ args \in CallerCalls
    /\ pc = "caller_begin"
    /\ run = 1
    /\ lookup = NoCols
    /\ merge_cols = NoCols
    /\ pending = NoTx
    /\ error = "none"
    /\ stmts = {}
    /\ pre = target
    /\ first = NotEnded
    /\ nrec = 0
    /\ chunks = <<>>
    /\ catalog = CatalogRelationships(schema)
    /\ frame = NoFrame
    /\ NotConnected

\* The caller's earlier work: Session(engine) and a DELETE of some rows, which
\* the foreign key of the child admits; nothing of it is committed.
CallerDelete ==
    /\ pc = "caller_begin"
    /\ \E gone \in SUBSET target :
          /\ ForeignKeyHolds(schema, target \ gone, child)
          /\ pending' = Tx(target \ gone)
          /\ frame' = [op |-> "caller", earlier |-> target \ gone]
    /\ session' = "active"
    /\ pc' = "caller_call"
    /\ UNCHANGED <<schema, target, child, staging, seq, relationships, args, run, lookup,
                   merge_cols, error, stmts, pre, first, nrec, chunks, supplied,
                   match_stmt, graphVars, connVars>>

\* write(data, table, mode, session=session), lines 770-830: is_sub is True and
\* do_commit is False. OVERWRITE's DELETE runs on the caller's session; a batch
\* above the limit goes to __write_in_chunks, which commits every chunk on that
\* session and closes it (line 1613).
CallerWrite ==
    /\ pc = "caller_call"
    /\ stmts' = stmts \cup (IF args.mode = "OVERWRITE" THEN {"DELETE"} ELSE {}) \cup {"INSERT"}
    /\ LET w == write(target, pending.rows, args.data, args.mode, TRUE, FALSE, schema, seq,
                      ChunkLimit)
       IN  IF args.mode = "OVERWRITE" /\ ~ForeignKeyHolds(schema, {}, child)
           THEN /\ pc' = "raised"
                /\ error' = "BackendError"
                /\ UNCHANGED <<target, seq, pending, session>>
           ELSE /\ target' = w.committed
                /\ seq' = w.seq
                /\ session' = IF w.ok /\ Len(args.data) > ChunkLimit
                              THEN "closed" ELSE "active"
                /\ pending' = IF w.ok THEN w.pending ELSE pending
                /\ pc' = IF w.ok THEN "caller_returned" ELSE "raised"
                /\ error' = IF w.ok THEN "none" ELSE "BackendError"
    /\ UNCHANGED <<schema, child, staging, relationships, args, run, lookup, merge_cols,
                   pre, first, nrec, chunks, supplied, match_stmt, frame, graphVars,
                   connVars>>

\* The caller gives up: session.rollback() and session.close(). What was
\* committed stays.
CallerRollback ==
    /\ pc \in {"caller_returned", "raised"}
    /\ pending' = NoTx
    /\ session' = "closed"
    /\ pc' = "caller_done"
    /\ UNCHANGED <<schema, target, child, staging, seq, relationships, args, run, lookup,
                   merge_cols, error, stmts, pre, first, nrec, chunks, supplied,
                   match_stmt, frame, graphVars, connVars>>

NextCaller ==
    \/ CallerDelete
    \/ CallerWrite
    \/ CallerRollback

SpecCaller == InitCaller /\ [][NextCaller]_vars

-----------------------------------------------------------------------------
(* execute(query, session=..., rollback_stmt=...) of one statement: an       *)
(* INSERT of one record, with or without RETURNING, or a SELECT.             *)

\* returning: the INSERT ends with RETURNING id. is_sub: the caller passed its
\* session.
ExecuteCalls ==
    [kind : {"INSERT", "SELECT"}, rec : RecordShapes, returning : BOOLEAN,
     is_sub : BOOLEAN, rollback_stmt : BOOLEAN]

\* results.returns_rows of the statement.
returns_rows(call) == call.kind = "SELECT" \/ call.returning

\* The rows of the table once the statement has run on rows.
StatementRows(call, rows, s, nextId) ==
    IF call.kind = "INSERT" THEN rows \cup NewRows(<<call.rec>>, s, nextId) ELSE rows

InitExecute ==
    /\ supplied = {}
    /\ queries = <<>>
    /\ returned = NoCall
    /\ match_stmt = NoMatch
    /\ schema \in Schemas
    /\ target \in InitialTargets
    /\ child = {}
    /\ staging = [exists |-> FALSE, rows |-> {}]
    /\ seq = Cardinality(target) + 1
    /\ relationships = {}
    /\ args \in ExecuteCalls
    /\ session = IF args.is_sub THEN "active" ELSE "none"
    /\ pending = IF args.is_sub THEN Tx(target) ELSE NoTx
    /\ pc = "execute"
    /\ run = 1
    /\ lookup = NoCols
    /\ merge_cols = NoCols
    /\ error = "none"
    /\ stmts = {}
    /\ pre = target
    /\ first = NotEnded
    /\ nrec = 0
    /\ chunks = <<>>
    /\ catalog = {}
    /\ frame = NoFrame
    /\ NotConnected

\* execute(), lines 648-691. A statement that fails closes the session and is
\* raised again. A statement that returns no rows is committed and the session
\* closed when the session is the call's own and rollback_stmt is False; one
\* that returns rows is fetched and the session closed without a commit, which
\* rolls back what the statement did. With rollback_stmt the session is rolled
\* back and left open; a caller's session is left as it is.
Execute ==
    /\ pc = "execute"
    /\ stmts' = stmts \cup {args.kind}
    /\ LET before == IF args.is_sub THEN pending.rows ELSE target
           after == StatementRows(args, before, schema, seq)
       IN  IF ~ConstraintsHold(schema, after)
           THEN /\ pc' = "raised"
                /\ error' = "BackendError"
                /\ session' = "closed"
                /\ pending' = NoTx
                /\ returned' = [op |-> "execute", data |-> {}]
                /\ UNCHANGED target
           ELSE /\ pc' = "returned"
                /\ UNCHANGED error
                /\ returned' = [op |-> "execute",
                                data |-> IF ~returns_rows(args) THEN {}
                                         ELSE IF args.kind = "SELECT" THEN after
                                         ELSE after \ before]
                /\ IF args.is_sub
                   THEN /\ pending' = Tx(after)
                        /\ UNCHANGED <<target, session>>
                   ELSE IF args.rollback_stmt
                   THEN /\ pending' = NoTx
                        /\ session' = "active"
                        /\ UNCHANGED target
                   ELSE IF returns_rows(args)
                   THEN /\ pending' = NoTx
                        /\ session' = "closed"
                        /\ UNCHANGED target
                   ELSE /\ pending' = NoTx
                        /\ session' = "closed"
                        /\ target' = after
    /\ seq' = IF args.kind = "INSERT" THEN seq + 1 ELSE seq
    /\ UNCHANGED <<schema, child, staging, relationships, args, run, lookup, merge_cols,
                   pre, first, nrec, chunks, supplied, catalog, queries, match_stmt,
                   frame, connVars>>

NextExecute == Execute

SpecExecute == InitExecute /\ [][NextExecute]_vars

-----------------------------------------------------------------------------
(* The strategy of an upsert on a connector whose relationship graph earlier *)
(* calls may have built. The rows of the database are fixed: every child     *)
(* table holds a row that references the row the batch selects.              *)

\* upsert(), lines 953-960: Merge when the graph has the table as a parent and
\* __downstream_data_exists_for_cols finds, among its relationships whose
\* parent key overlaps the upsert columns, one with referencing rows.
UpsertStrategy(rels, table, cols) ==
    IF /\ has_dependent_tables(rels, table)
       /\ \E e \in get_foreign_keys(rels, table) : e.pkey \cap cols # {}
    THEN "Merge" ELSE "DeleteThenInsert"

\* upsert(data, table, upsert_cols) up to its choice of strategy: line 953
\* calls setup_fkey_relationships() with skip_builtins=False and
\* overwrite=False, which keeps a graph that is not empty.
UpsertOnGraph ==
    /\ pc = "graph"
    /\ pc' = "decided"
    /\ QueriesCatalog(relationships, FALSE) => Len(queries) < MaxQueries
    /\ relationships' = setup_fkey_relationships(relationships, catalog, FALSE, FALSE)
    /\ queries' = IF QueriesCatalog(relationships, FALSE)
                  THEN Append(queries, [skip_builtins |-> FALSE, overwrite |-> FALSE])
                  ELSE queries
    /\ \E table \in Tables : \E cols \in Keys :
          frame' = [op |-> "upsert", table |-> table, upsert_cols |-> cols,
                    strategy |-> UpsertStrategy(relationships', table, cols),
                    history |-> Len(queries)]
    /\ UNCHANGED <<schema, target, child, staging, seq, args, run, lookup, merge_cols,
                   pending, error, stmts, pre, first, nrec, chunks, session, supplied,
                   catalog, returned, match_stmt, connVars>>

NextHistory ==
    \/ SetupRelationships
    \/ GetForeignKeys
    \/ GetForeignKeyParents
    \/ UpsertOnGraph

SpecHistory == InitGraph /\ [][NextHistory]_vars

-----------------------------------------------------------------------------
(* Properties of an upsert call. *)

Ended == pc \in {"done", "raised"}

\* The columns the call looks rows up by, once resolved.
Vals == UpsertVals(args.data, lookup)

\* The rows the call found in the target that carry one of its lookup values.
Matching == {r \in pre : Project(r, lookup) \in Vals}

\* A child row references one of the matching rows through a foreign key on a
\* parent key that overlaps the lookup columns.
ReferencedMatch ==
    /\ schema.fk # "none"
    /\ schema.fk \in lookup
    /\ \E p \in Matching : \E c \in child : p[schema.fk] = c.ref

\* No foreign key of a child references parent columns among the lookup columns.
NoOverlappingForeignKey == schema.fk = "none" \/ schema.fk \notin lookup

\* Row t holds what record rec says, in every column the record has.
Carries(t, rec) == \A c \in DOMAIN rec : t[c] = rec[c]

Contents == Codes \X {OldExtra, NewExtra, Null}

CountRows(rows, c, e) == Cardinality({r \in rows : r.code = c /\ r.extra = e})

CountRecs(data, c, e) ==
    Cardinality({i \in 1..Len(data) : Field(data[i], "code") = c /\ Field(data[i], "extra") = e})

\* No two records of the batch carry the same lookup values.
DistinctLookupValues ==
    \A i, j \in 1..Len(args.data) :
        i # j => Project(args.data[i], lookup) # Project(args.data[j], lookup)

\* C1: when child rows reference target rows matching the batch through a
\* foreign key that overlaps the upsert columns, the call sends no DELETE and
\* every matching row is still there, with its id, holding the values of a
\* record of the batch with its lookup values. Stated for batches whose
\* records carry distinct lookup values.
C1_NoDeleteUpdatedInPlace ==
    (Ended /\ lookup # NoCols /\ ReferencedMatch /\ DistinctLookupValues) =>
        /\ "DELETE" \notin stmts
        /\ \A p \in Matching : \E t \in target :
              /\ t.id = p.id
              /\ \E i \in 1..Len(args.data) :
                    /\ Project(args.data[i], lookup) = Project(p, lookup)
                    /\ Carries(t, args.data[i])

C3_Scenario ==
    /\ schema.uniques = {{"code"}}
    /\ schema.fk = "code"
    /\ pre = {Row(1, "A", OldExtra)}
    /\ child = {[ref |-> "A"]}
    /\ args = [data |-> <<[code |-> "A", extra |-> NewExtra]>>, upsert_cols |-> {"code"}]
    /\ run = 1

\* C3: in that scenario the call takes the Merge path, merges on code, leaves
\* exactly one row with code A, now with the new value, and leaves the child
\* row referencing it.
C3_MergeScenario ==
    (Ended /\ C3_Scenario) =>
        /\ pc = "done"
        /\ "MERGE" \in stmts
        /\ "DELETE" \notin stmts
        /\ merge_cols = {"code"}
        /\ {r \in target : r.code = "A"} = {Row(1, "A", NewExtra)}
        /\ child = {[ref |-> "A"]}
        /\ ForeignKeyHolds(schema, target, child)

NotAConstraint == args.upsert_cols # NoCols /\ args.upsert_cols \notin KeyConstraints(schema)

\* C6: when the Merge path is needed and the given upsert columns are no
\* unique or primary-key constraint of the target, the call ends with a
\* ValueError and has sent neither the staging table's creation nor a MERGE.
\* Stated for batches whose records carry distinct lookup values.
C6_RejectsNonConstraint ==
    (Ended /\ NotAConstraint /\ ReferencedMatch /\ DistinctLookupValues) =>
        /\ pc = "raised"
        /\ error = "ValueError"
        /\ "CREATE_STAGING" \notin stmts
        /\ "MERGE" \notin stmts

\* The key constraints of the target whose columns the records all have.
PresentConstraints == {k \in KeyConstraints(schema) : k \subseteq DataCols(args.data)}

UsablePrimaryKey == schema.pk # "none" /\ ~IdentityAlways(schema, schema.pk)

NoKeyResolvable == schema.uniques = {} /\ ~UsablePrimaryKey

C9_StagingDropped == (Ended /\ "CREATE_STAGING" \in stmts) => ~staging.exists

-----------------------------------------------------------------------------
(* Properties of the chunked writer. *)

CeilDiv(n, d) == (n + d - 1) \div d

\* C10: a batch of more than 10000 records is written in ceil(n / 10000)
\* chunks, none empty, none above 10000 records, one after the other and
\* covering the batch; 25000 records go as 10000, 10000 and 5000; a batch of
\* at most 10000 records is written as one unit.
C10_ChunkPartition ==
    pc = "written" =>
        /\ chunks # <<>>
        /\ chunks[1][1] = 0
        /\ chunks[Len(chunks)][2] = nrec
        /\ \A k \in 1..Len(chunks) :
              /\ chunks[k][1] < chunks[k][2]
              /\ chunks[k][2] - chunks[k][1] <= CHUNK_SIZE
              /\ k < Len(chunks) => chunks[k][2] = chunks[k + 1][1]
        /\ Len(chunks) = IF nrec > CHUNK_SIZE THEN CeilDiv(nrec, CHUNK_SIZE) ELSE 1
        /\ nrec = 25000 => chunks = <<<<0, 10000>>, <<10000, 20000>>, <<20000, 25000>>>>

C10_Witness ==
    /\ pc = "written"
    /\ nrec = 25000
    /\ Len(chunks) = 3

-----------------------------------------------------------------------------
(* Properties of a direct write. *)

\* The slices of the batch, when write() hands it to the chunked writer.
Slices == ChunkSlices(Len(args.data), ChunkLimit)
Chunked == args.shape = "list" /\ Len(args.data) > ChunkLimit

\* The rows the write starts from, and those with the first m records added.
Base == IF args.mode = "OVERWRITE" THEN {} ELSE pre
WithRecords(m) == Base \cup NewRows(SubSeq(args.data, 1, m), schema, Cardinality(pre) + 1)

\* The database accepts chunk k after the chunks before it.
ChunkFits(k) == ConstraintsHold(schema, WithRecords(Slices[k][2]))

\* C11: when chunk k of a chunked write fails, the chunks before it are
\* committed in the target, chunk k has added no committed row, no later
\* chunk was written, and the call ends with the error.
C11_ChunkFailure ==
    (pc = "raised" /\ Chunked /\ "INSERT" \in stmts) =>
        LET k == Len(chunks) + 1
        IN  /\ k <= Len(Slices)
            /\ \A j \in 1..(k - 1) : ChunkFits(j)
            /\ ~ChunkFits(k)
            /\ chunks = SubSeq(Slices, 1, k - 1)
            /\ target = IF k = 1 THEN pre ELSE WithRecords(Slices[k - 1][2])
            /\ error = "BackendError"

C11_Witness ==
    /\ pc = "raised"
    /\ Chunked
    /\ Len(chunks) >= 1
    /\ target # pre
    /\ args.mode = "APPEND"

-----------------------------------------------------------------------------
(* Properties of the relationship graph. *)

\* C13: once the relationship graph has been built, a call without
\* overwrite=True issues no catalog query: every catalog query after the
\* first was sent by a call with overwrite=True.
C13_BuiltGraphNotQueriedAgain ==
    \A i \in 2..Len(queries) : queries[i].overwrite


\* The tables reached from the tables of S by one more foreign key, each with
\* whether the path to it has used the columns cols at some hop.
RECURSIVE Hops(_, _, _)
Hops(rels, cols, S) ==
    LET grown == S \cup UNION {{<<e.child, p[2] \/ e.pkey = cols>> :
                                    e \in {x \in rels : x.parent = p[1]}} : p \in S}
    IN  IF grown = S THEN S ELSE Hops(rels, cols, grown)

\* child_table is reached from parent_table by a chain of one or more foreign
\* keys, one of them on the parent columns cols.
Linked(rels, parent_table, child_table, cols) ==
    <<child_table, TRUE>> \in
        Hops(rels, cols, {<<e.child, e.pkey = cols>> :
                            e \in {x \in rels : x.parent = parent_table}})

AskedLink == returned.op = "tables_are_linked_by"

AskedLinked ==
    Linked(relationships, returned.parent_table, returned.child_table,
           returned.parent_column.cols)

\* C14: tables_are_linked_by ends on every relationship graph, and when the
\* child table is not linked to the parent table through the parent column
\* it returns False (or ends without a value, which a caller's test reads as
\* false).
C14_NotLinkedReturnsFalse ==
    AskedLink =>
        /\ returned.calls <= Cardinality(Tables)
        /\ ~AskedLinked => returned.value \in {"False", "None"}

\* C15: asked with the parent columns in the form the graph stores them,
\* tables_are_linked_by returns True exactly when the child table is reached
\* from the parent table by a chain of one or more foreign keys that uses the
\* parent columns at some hop.
C15_TrueExactlyWhenLinked ==
    (AskedLink /\ returned.parent_column.kind = "tuple") =>
        (returned.value = "True" <=> AskedLinked)

-----------------------------------------------------------------------------
(* Properties of the engine and connection caches. *)

\* C16: an engine and a connection are created at most once for each
\* connection string (dialect, connection parameters and extra connection
\* options), and the connector that connected last holds the engine and the
\* connection created for its string.
C16_OneHandlePerConnectionString ==
    /\ \A i, j \in 1..Len(created) :
         (created[i].kind = created[j].kind /\ created[i].req = created[j].req) => i = j
    /\ connector.req # NoRequest =>
         /\ \E i \in Created("engine") :
              created[i].req = connector.req /\ created[i].handle = connector.engine
         /\ \E i \in Created("connection") :
              created[i].req = connector.req /\ created[i].handle = connector.conn
         /\ connector.conn.engine = connector.engine

-----------------------------------------------------------------------------
(* Properties of the lookup columns of an upsert call. *)

\* The call names lookup columns that the target table lacks, or that one of
\* its records lacks.
LookupAbsent ==
    /\ args.upsert_cols # NoCols
    /\ \/ ~(args.upsert_cols \subseteq AllColumns)
       \/ \E i \in 1..Len(args.data) : ~(args.upsert_cols \subseteq DOMAIN args.data[i])

\* C18: an upsert whose lookup columns are absent from the target table or
\* from one of the records ends with a validation error, raised before any
\* statement is sent: no row is deleted or inserted.
C18_AbsentLookupRejected ==
    (run = 1 /\ Ended /\ LookupAbsent) =>
        /\ pc = "raised"
        /\ error = "ValueError"
        /\ stmts = {}
        /\ target = pre

-----------------------------------------------------------------------------
(* Properties of the columns a write supplies. *)

\* C19: no INSERT of a write supplies a value for an identity-always column
\* of the target table, whatever fields the records have.
C19_IdentityAlwaysNeverSupplied ==
    supplied \cap get_id_columns(schema) = {}

-----------------------------------------------------------------------------
(* Properties of the generated MERGE. *)

\* The MERGE of the call has just been generated and sent: the staging table
\* and the target are as the statement found them.
MergeGenerated == "MERGE" \in stmts /\ "DROP_STAGING" \notin stmts /\ match_stmt # NoMatch

\* Some row holds a NULL in column c.
HoldsNull(rows, c) == \E r \in rows : IsNullAt(r, c)

\* C20: the join predicate of the generated MERGE compares each merge column
\* with "is not distinct from" when the column holds a NULL in a row of the
\* source or of the target, and with "=" when it holds none in either.
C20_NullSafeMergePredicate ==
    MergeGenerated =>
        /\ DOMAIN match_stmt = merge_cols
        /\ \A c \in merge_cols :
             match_stmt[c] = IF HoldsNull(staging.rows, c) \/ HoldsNull(target, c)
                             THEN "is not distinct from" ELSE "="

\* A MERGE that went through, with a merge column that holds a NULL in the
\* source and a merge column that holds none.
C20_Witness ==
    /\ MergeGenerated
    /\ pc = "drop"
    /\ \E c \in merge_cols :
         /\ HoldsNull(staging.rows, c)
         /\ match_stmt[c] = "is not distinct from"
    /\ \E c \in merge_cols : match_stmt[c] = "="

-----------------------------------------------------------------------------
(* Properties of the session of a call. *)

\* C17: when a statement of the call has raised a backend error, the session
\* the call was using has been closed or rolled back by the time the error
\* reaches the caller: none is left open with a transaction pending.
C17_SessionClosedOnError ==
    (pc = "raised" /\ error = "BackendError") => session \in {"none", "closed"}

-----------------------------------------------------------------------------
(* Properties of wrap_literal. *)

\* The text of a temporal value in the fixed form of its kind.
FixedForm(val) ==
    IF val.kind = "date" THEN strftime(val, "%Y-%m-%d")
    ELSE IF val.kind = "datetime" THEN strftime(val, "%Y-%m-%d %H:%M:%S")
    ELSE strftime(val, "%H:%M:%S")

\* C21: wrap_literal without type information returns a date as YYYY-MM-DD,
\* a datetime as YYYY-MM-DD HH:MM:SS and a time as HH:MM:SS, in quotes.
C21_TemporalFixedForm ==
    returned.op = "wrap_literal" =>
        returned.value = "'" \o FixedForm(returned.val) \o "'"

\* The call is one that must fail: its dialect is no member of SQLDialect or
\* one connect can create no engine for, or its parameters lack dbname.
MustFail(call) ==
    \/ call.req.dialect \notin WithEngine
    \/ call.req.conn_kwargs = LacksDbname

\* C22: a construction or connect call with an invalid dialect, a dialect no
\* engine can be created for or a missing connection parameter raises an
\* error, and no engine or connection is created or cached for such a call.
C22_InvalidConnectFailsFast ==
    /\ (run > 1 /\ MustFail(args)) => error # "none"
    /\ \A i \in 1..Len(created) : created[i].req.dialect \in WithEngine
                                     /\ created[i].req.conn_kwargs # LacksDbname
    /\ \A k \in DOMAIN ENGINE_CACHE \cup DOMAIN CONN_CACHE :
         k.template \in WithEngine /\ k.kwargs # LacksDbname

-----------------------------------------------------------------------------
(* Properties of get_random_temp_table_name. *)

\* C23: the name get_random_temp_table_name returns is not the name of an
\* existing table, and it has drawn again at most 20 times.
C23_ReturnedNameIsFree ==
    (pc = "returned" /\ frame.op = "get_random_temp_table_name") =>
        /\ returned.value \notin frame.existing
        /\ frame.retry_ct <= MAX_RETRIES

-----------------------------------------------------------------------------
(* Properties of overlapping Merge upserts. *)

\* The rows an operation loads into its staging table, by code and extra.
OwnRows(p) ==
    {<<frame.ops[p].data[i].code, frame.ops[p].data[i].extra>> :
        i \in 1..Len(frame.ops[p].data)}

\* C24: of two overlapping Merge upserts on one target, each merges from the
\* staging rows it loaded itself and from no others, and neither finds its
\* staging table dropped or taken by the other.
C24_OwnStagingTable ==
    \A p \in Operations :
        /\ frame.ops[p].merged =>
             {<<r.code, r.extra>> : r \in frame.ops[p].source} = OwnRows(p)
        /\ frame.ops[p].pc # "raised"


-----------------------------------------------------------------------------
(* Properties of the id sequence under OVERWRITE. *)

\* C25: a write with OVERWRITE that returns, on a table whose ids are generated
\* and for records that give none, numbers the new rows from the initial value
\* of the sequence: their ids are 1 .. the number of records.
C25_OverwriteRestartsIds ==
    (pc = "returned" /\ args.mode = "OVERWRITE" /\ "id" \notin supplied) =>
        {t.id : t \in target} = 1..Len(args.data)


-----------------------------------------------------------------------------
(* Properties of the strategy and the rows children reference. *)

\* A child row references one of the matching rows, through whatever parent
\* key the foreign key names.
DependentMatch ==
    /\ schema.fk # "none"
    /\ \E p \in Matching : \E c \in child : p[schema.fk] = c.ref

\* C26: the call sends its DELETE only when none of the rows the DELETE selects
\* is referenced by a child row, whichever parent key the foreign key names.
C26_DeleteOnlyWithoutDependents ==
    (run = 1 /\ lookup # NoCols /\ "DELETE" \in stmts) => ~DependentMatch


-----------------------------------------------------------------------------
(* Properties of a write on the caller's session. *)

\* C27: when write() returns to a caller that passed its session with
\* do_commit=False, that session is still open and nothing has been committed:
\* the committed rows are those the caller found, and the session holds the
\* caller's earlier work together with the rows of the call.
C27_CallerSessionLeftPending ==
    pc = "caller_returned" =>
        /\ session = "active"
        /\ target = pre
        /\ pending # NoTx


-----------------------------------------------------------------------------
(* Properties of execute(). *)

\* C28: an execute() call without a session of the caller and without
\* rollback_stmt that returns has closed its session and committed what its
\* statement did, whether or not the statement returns rows.
C28_ExecuteCommitsThenCloses ==
    (pc = "returned" /\ ~args.is_sub /\ ~args.rollback_stmt) =>
        /\ session = "closed"
        /\ target = StatementRows(args, pre, schema, Cardinality(pre) + 1)


-----------------------------------------------------------------------------
(* Properties of the strategy across histories of the connector. *)

\* C29: the strategy an upsert chooses is the one it chooses on a connector
\* that has built no graph yet, whatever calls on the graph came before it.
C29_StrategyIgnoresHistory ==
    frame.op = "upsert" =>
        frame.strategy
            = UpsertStrategy(setup_fkey_relationships({}, catalog, FALSE, FALSE),
                             frame.table, frame.upsert_cols)


-----------------------------------------------------------------------------
(* Properties of the drop of the staging table. *)

====
